---- MODULE Spec2Model ----
(***************************************************************************)
(* Model of netlify/functions/satnogs-proxy.js: a Netlify function that    *)
(* proxies GET requests under /api/network/... and /api/db/... to the two  *)
(* SatNOGS APIs and adds CORS headers.                                     *)
(*                                                                         *)
(* Encoding of JavaScript values                                           *)
(*   - a JS value is a record tagged by t: null, bool, num, str, arr, obj  *)
(*     (obj holds its members in insertion order), and "text" for a string *)
(*     that is JSON text, held as the sequence of its JSON tokens;         *)
(*   - event.path is held as the list of its '/'-separated pieces, which   *)
(*     is what event.path.split('/') returns ("/api/db/x" is               *)
(*     <<"", "api", "db", "x">>); PathText rebuilds the string;            *)
(*   - a string that the code searches with includes() is held as a        *)
(*     sequence of atoms whose concatenation is the string, cut so that    *)
(*     the searched word is an atom of its own;                            *)
(*   - an object with optional properties (headers, error) is a function   *)
(*     whose DOMAIN holds the properties that are present.                 *)
(***************************************************************************)
EXTENDS Integers, Sequences, FiniteSets, TLC

VARIABLES
  env,                      \* process.env, read while the module loads
  loadPc,                   \* position of the module's top-level code
  SATNOGS_NETWORK_API_URL,  \* module constant, line 6
  SATNOGS_DB_API_URL,       \* module constant, line 7
  ALLOWED_ORIGIN,           \* module constant, line 13
  BASE_CORS_HEADERS,        \* module-level object, lines 22-26
  exportsHandler,           \* the function exports.handler refers to
  inflight,                 \* per slot: an invocation suspended at await axios.get
  last                      \* the invocation that completed most recently

vars == <<env, loadPc, SATNOGS_NETWORK_API_URL, SATNOGS_DB_API_URL,
          ALLOWED_ORIGIN, BASE_CORS_HEADERS, exportsHandler, inflight, last>>

moduleVars == <<env, loadPc, SATNOGS_NETWORK_API_URL, SATNOGS_DB_API_URL,
                ALLOWED_ORIGIN, BASE_CORS_HEADERS, exportsHandler>>

(***************************************************************************)
(* Bounds                                                                  *)
(***************************************************************************)
\* Invocations that may be suspended at the upstream call at the same time.
MaxInFlight == 2
\* Longest inbound path, in '/'-separated pieces.
MaxPieces == 4

(***************************************************************************)
(* JavaScript values and strings                                           *)
(***************************************************************************)
JsNull == [t |-> "null"]
JsBool(b) == [t |-> "bool", v |-> b]
JsNum(n) == [t |-> "num", v |-> n]
JsStr(s) == [t |-> "str", v |-> s]
JsArr(items) == [t |-> "arr", v |-> items]
JsObj(members) == [t |-> "obj", v |-> members]
JsText(tokens) == [t |-> "text", v |-> tokens]
Member(key, value) == [k |-> key, v |-> value]

\* obj[k] on an object with optional properties: present or undefined.
Has(obj, k) == k \in DOMAIN obj

\* The string a sequence of atoms stands for.
RECURSIVE Flatten(_)
Flatten(atoms) ==
  IF atoms = <<>> THEN "" ELSE Head(atoms) \o Flatten(Tail(atoms))

\* String.prototype.includes on a string held as atoms.
Includes(atoms, word) == \E i \in 1..Len(atoms) : atoms[i] = word

\* Array.prototype.join
RECURSIVE Join(_, _)
Join(items, sep) ==
  IF items = <<>> THEN ""
  ELSE IF Len(items) = 1 THEN items[1]
  ELSE items[1] \o sep \o Join(Tail(items), sep)

\* event.path as the string the platform delivered.
PathText(path) == Join(path, "/")

\* { ...headers, [name]: value }
SetHeader(headers, name, value) ==
  [h \in DOMAIN headers \cup {name} |-> IF h = name THEN value ELSE headers[h]]

(***************************************************************************)
(* JSON.stringify: the JSON text of a value, as its tokens                 *)
(***************************************************************************)
Tok(kind, text) == [k |-> kind, v |-> text]

RECURSIVE JSONStringify(_), StringifyItems(_), StringifyMembers(_)
JSONStringify(x) ==
  CASE x.t = "null" -> <<Tok("lit", "null")>>
    [] x.t = "bool" -> <<Tok("lit", IF x.v THEN "true" ELSE "false")>>
    [] x.t = "num"  -> <<Tok("num", ToString(x.v))>>
    [] x.t = "str"  -> <<Tok("str", x.v)>>
    [] x.t = "arr"  -> <<Tok("punct", "[")>> \o StringifyItems(x.v)
                         \o <<Tok("punct", "]")>>
    [] x.t = "obj"  -> <<Tok("punct", "{")>> \o StringifyMembers(x.v)
                         \o <<Tok("punct", "}")>>

StringifyItems(items) ==
  IF items = <<>> THEN <<>>
  ELSE IF Len(items) = 1 THEN JSONStringify(items[1])
  ELSE JSONStringify(items[1]) \o <<Tok("punct", ",")>>
         \o StringifyItems(Tail(items))

StringifyMembers(members) ==
  IF members = <<>> THEN <<>>
  ELSE LET m == members[1]
           one == <<Tok("str", m.k), Tok("punct", ":")>> \o JSONStringify(m.v)
       IN IF Len(members) = 1 THEN one
          ELSE one \o <<Tok("punct", ",")>> \o StringifyMembers(Tail(members))

(***************************************************************************)
(* Module-level configuration, lines 6-30                                  *)
(***************************************************************************)
\* process.env.NAME || fallback: an unset or empty variable gives the fallback.
EnvOr(e, name, fallback) ==
  IF Has(e, name) /\ e[name] # "" THEN e[name] ELSE fallback

isDevelopment(e) == Has(e, "CONTEXT") /\ e["CONTEXT"] = "development"

AllowedOriginOf(e) ==
  IF isDevelopment(e) THEN "*" ELSE EnvOr(e, "ALLOWED_ORIGIN_URL", "*")

BaseCorsHeadersOf(origin) ==
  [h \in {"Access-Control-Allow-Origin", "Access-Control-Allow-Headers",
          "Access-Control-Allow-Methods"} |->
     CASE h = "Access-Control-Allow-Origin"  -> origin
       [] h = "Access-Control-Allow-Headers" -> "Content-Type, Accept"
       [] h = "Access-Control-Allow-Methods" -> "GET, OPTIONS"]

EXPOSED_HEADERS == "Content-Type, Content-Length"

(***************************************************************************)
(* The first function assigned to exports.handler (lines 32-190): the      *)
(* proxy handler, up to its await of axios.get                             *)
(***************************************************************************)
JsonBody(members) == JsText(JSONStringify(JsObj(members)))

JsonHeaders == SetHeader(BASE_CORS_HEADERS, "Content-Type", "application/json")

IsNonEmpty(segment) == segment # ""

pathSegments(event) == SelectSeq(event.path, IsNonEmpty)

apiType(event) == pathSegments(event)[2]

\* A plausible slip: only the third segment is forwarded.
remainingPath_FirstOnly(event) == "/" \o pathSegments(event)[3]

remainingPath(event) ==
  LET segs == pathSegments(event)
  IN "/" \o Join(SubSeq(segs, 3, Len(segs)), "/")

\* A plausible slip: the preflight answered with the JSON header set.
PreflightResponse_Json ==
  [statusCode |-> 204, headers |-> JsonHeaders, body |-> JsStr("")]

PreflightResponse ==
  [statusCode |-> 204, headers |-> BASE_CORS_HEADERS, body |-> JsStr("")]

MethodNotAllowedResponse(event) ==
  [statusCode |-> 405,
   headers |-> JsonHeaders,
   body |-> JsonBody(<<Member("message",
              JsStr("Method " \o event.httpMethod \o " Not Allowed"))>>)]

InvalidPathResponse ==
  [statusCode |-> 404,
   headers |-> JsonHeaders,
   body |-> JsonBody(<<Member("message",
              JsStr("Not Found: Invalid API path structure. Expected /api/network/... or /api/db/..."))>>)]

UnsupportedTypeResponse(event) ==
  [statusCode |-> 404,
   headers |-> JsonHeaders,
   body |-> JsonBody(<<Member("message",
              JsStr("Not Found: API type '" \o apiType(event)
                    \o "' is not supported. Use 'network' or 'db'."))>>)]

\* A plausible slip: two segments accepted as a route.
InvalidStructure_TwoSegments(event) ==
  Len(pathSegments(event)) < 2 \/ pathSegments(event)[1] # "api"

\* Line 56.
InvalidStructure(event) ==
  Len(pathSegments(event)) < 3 \/ pathSegments(event)[1] # "api"

targetBaseUrl(event) ==
  IF apiType(event) = "network" THEN SATNOGS_NETWORK_API_URL
  ELSE SATNOGS_DB_API_URL

targetUrl(event) == targetBaseUrl(event) \o remainingPath(event)

queryParams(event) == event.queryStringParameters

\* The arguments of axios.get, lines 91-96.
AxiosGet(event) ==
  [method |-> "GET",
   url |-> targetUrl(event),
   params |-> queryParams(event),
   timeout |-> 15000,
   headers |-> [h \in {"Accept"} |-> "application/json"]]

\* Lines 34-96: a response returned before any upstream call, or the call.
ProxyHandlerStart(event) ==
  IF event.httpMethod = "OPTIONS"
    THEN [returned |-> TRUE, response |-> PreflightResponse]
  ELSE IF event.httpMethod # "GET"
    THEN [returned |-> TRUE, response |-> MethodNotAllowedResponse(event)]
  ELSE IF InvalidStructure(event)
    THEN [returned |-> TRUE, response |-> InvalidPathResponse]
  ELSE IF apiType(event) \notin {"network", "db"}
    THEN [returned |-> TRUE, response |-> UnsupportedTypeResponse(event)]
  ELSE [returned |-> FALSE, call |-> AxiosGet(event)]

(***************************************************************************)
(* The proxy handler after axios.get resolved (lines 98-160)               *)
(***************************************************************************)
\* response.headers[name] is a non-empty string.
Truthy(headers, name) == Has(headers, name) /\ Flatten(headers[name]) # ""

\* A plausible slip: no message of its own for 404.
errorMessage_Generic(event, response) ==
  "Error fetching data from SatNOGS. Status: " \o ToString(response.status) \o "."

errorMessage(event, response) ==
  IF response.status = 404
    THEN "Not Found: The requested resource was not found on the SatNOGS "
           \o apiType(event) \o " API."
    ELSE "Error fetching data from SatNOGS. Status: "
           \o ToString(response.status) \o "."

\* A plausible slip: Link copied but not added to the exposed list.
WithLinkAndExposed_NotExposed(responseHeaders, response) ==
  SetHeader(
    IF Truthy(response.headers, "link")
      THEN SetHeader(responseHeaders, "Link", Flatten(response.headers["link"]))
      ELSE responseHeaders,
    "Access-Control-Expose-Headers", EXPOSED_HEADERS)

\* Lines 118-122 and 142-148: Link copied and exposed when upstream sent one.
WithLinkAndExposed(responseHeaders, response) ==
  IF Truthy(response.headers, "link")
    THEN SetHeader(
           SetHeader(responseHeaders, "Link", Flatten(response.headers["link"])),
           "Access-Control-Expose-Headers", EXPOSED_HEADERS \o ", Link")
    ELSE SetHeader(responseHeaders, "Access-Control-Expose-Headers",
                   EXPOSED_HEADERS)

\* Lines 107-129.
UpstreamErrorResponse(event, response) ==
  [statusCode |-> response.status,
   headers |-> WithLinkAndExposed(JsonHeaders, response),
   body |-> JsonBody(<<Member("message", JsStr(errorMessage(event, response))),
                       Member("upstreamStatus", JsNum(response.status))>>)]

\* Lines 134-139.
SuccessContentType(response) ==
  IF Truthy(response.headers, "content-type")
    THEN Flatten(response.headers["content-type"])
    ELSE "application/octet-stream"

looksLikeJson(response) ==
  /\ Truthy(response.headers, "content-type")
  /\ Includes(response.headers["content-type"], "application/json")

\* A plausible slip: the parsed body returned without JSON.stringify.
responseBody_Raw(response) == response.data

responseBody(response) ==
  IF looksLikeJson(response) THEN JsText(JSONStringify(response.data))
  ELSE response.data

\* Lines 131-160.
SuccessResponse(response) ==
  [statusCode |-> response.status,
   headers |-> WithLinkAndExposed(
                 SetHeader(BASE_CORS_HEADERS, "Content-Type",
                           SuccessContentType(response)),
                 response),
   body |-> responseBody(response)]

TranslateResponse(event, response) ==
  IF response.status >= 400 THEN UpstreamErrorResponse(event, response)
  ELSE SuccessResponse(response)

(***************************************************************************)
(* The proxy handler's catch block (lines 162-189)                         *)
(***************************************************************************)
IsAbortCode(error) == Has(error, "code") /\ error["code"] = "ECONNABORTED"

\* Line 174 evaluates error.message.includes(...) unless the code test already
\* decided; with error.message undefined that is a TypeError thrown inside
\* the catch block, which nothing catches.
CatchThrows(error) == ~IsAbortCode(error) /\ ~Has(error, "message")

IsTimeout(error) ==
  IsAbortCode(error) \/ Includes(error["message"], "timeout")

catchStatusCode(error) ==
  IF IsTimeout(error) THEN 504
  ELSE IF Has(error, "request") THEN 502
  ELSE 500

catchMessage(event, error) ==
  IF IsTimeout(error)
    THEN "Gateway Timeout: No timely response from SatNOGS API for "
           \o PathText(event.path) \o "."
  ELSE IF Has(error, "request")
    THEN "Bad Gateway: Error communicating with SatNOGS API for "
           \o PathText(event.path) \o "."
  ELSE "Internal Server Error processing the request for "
           \o PathText(event.path) \o "."

\* A plausible slip: the error headers built without the CORS headers.
CatchResponse_NoCors(event, error) ==
  [statusCode |-> catchStatusCode(error),
   headers |-> [h \in {"Content-Type"} |-> "application/json"],
   body |-> JsonBody(<<Member("message", JsStr(catchMessage(event, error)))>>)]

CatchResponse(event, error) ==
  [statusCode |-> catchStatusCode(error),
   headers |-> SetHeader(JsonHeaders, "Access-Control-Expose-Headers",
                         EXPOSED_HEADERS),
   body |-> JsonBody(<<Member("message", JsStr(catchMessage(event, error)))>>)]

(***************************************************************************)
(* The second function assigned to exports.handler (lines 194-227)         *)
(***************************************************************************)
TestHandlerResponse(event, now) ==
  [statusCode |-> 200,
   headers |->
     [h \in {"Content-Type", "Access-Control-Allow-Origin",
             "Access-Control-Allow-Headers", "Access-Control-Allow-Methods"} |->
        CASE h = "Content-Type"                 -> "application/json"
          [] h = "Access-Control-Allow-Origin"  -> "*"
          [] h = "Access-Control-Allow-Headers" -> "Content-Type"
          [] h = "Access-Control-Allow-Methods" -> "GET"],
   body |-> JsonBody(<<
     Member("message",
            JsStr("Success! Netlify function 'satnogs-proxy' is running.")),
     Member("status", JsStr("Test OK")),
     Member("invokedAt", JsStr(now)),
     Member("requestedPath", JsStr(PathText(event.path))),
     \* event.queryStringParameters || null: an object is truthy, null is null
     Member("requestedQueryParams", event.queryStringParameters)>>)]

(***************************************************************************)
(* Inputs                                                                  *)
(***************************************************************************)
Nothing == [x \in {} |-> ""]

\* An optional property: absent, or present with one of the values.
Opt(name, values) == {Nothing} \cup {name :> v : v \in values}

Environments ==
  {c @@ o @@ u :
     c \in Opt("CONTEXT", {"development", "production"}),
     o \in Opt("ALLOWED_ORIGIN_URL", {"", "https://app.example.com"}),
     u \in {Nothing,
            "SATNOGS_NETWORK_API_URL" :> "http://localhost:9001/api"
              @@ "SATNOGS_DB_API_URL" :> "http://localhost:9002/api"}}

FewEnvironments ==
  {Nothing,
   "CONTEXT" :> "development" @@ "ALLOWED_ORIGIN_URL" :> "https://app.example.com",
   "CONTEXT" :> "production" @@ "ALLOWED_ORIGIN_URL" :> "",
   "CONTEXT" :> "production" @@ "ALLOWED_ORIGIN_URL" :> "https://app.example.com"
     @@ "SATNOGS_NETWORK_API_URL" :> "http://localhost:9001/api"
     @@ "SATNOGS_DB_API_URL" :> "http://localhost:9002/api"}

QueryA ==
  JsObj(<<Member("norad_cat_id", JsStr("25544")),
          Member("format", JsStr("json"))>>)

Request(method, path, query) ==
  [httpMethod |-> method, path |-> path, queryStringParameters |-> query]

Events ==
  {Request("GET", <<"", "api", "network", "observations">>, QueryA),
   Request("GET", <<"", "api", "db", "transmitters", "abc">>, JsNull),
   Request("OPTIONS", <<"", "api", "network", "observations">>, JsNull),
   Request("POST", <<"", "api", "network", "observations">>, JsNull),
   Request("GET", <<"", "api", "unknown", "foo">>, JsNull),
   Request("GET", <<"", "api", "network">>, QueryA)}

Pieces == {"", "api", "network", "db", "observations"}

WidePaths == UNION {[1..n -> Pieces] : n \in 1..MaxPieces}

WideEvents ==
  [httpMethod : {"GET", "OPTIONS", "POST", "get"},
   path : WidePaths,
   queryStringParameters : {JsNull, QueryA}]

Clock == {"2025-04-19T10:00:00.000Z", "2025-04-19T10:00:01.000Z"}

NextLink == <<"<https://network.satnogs.org/api/observations/?page=2>; rel=\"next\"">>

Reply(status, headers, data) ==
  [status |-> status, headers |-> headers, data |-> data]

Page == JsArr(<<JsObj(<<Member("id", JsNum(1))>>)>>)

Responses ==
  {Reply(200, "content-type" :> <<"application/json">> @@ "link" :> NextLink, Page),
   Reply(200, "content-type" :> <<"application/json">>, Page),
   Reply(200, Nothing, JsStr("")),
   Reply(404, "content-type" :> <<"text/html">> @@ "link" :> NextLink,
         JsStr("<html>Not Found</html>")),
   Reply(404, "content-type" :> <<"application/json">>,
         JsObj(<<Member("detail", JsStr("Not found."))>>)),
   Reply(503, Nothing, JsStr(""))}

Bodies ==
  {JsNull, JsBool(TRUE), JsNum(0), JsStr(""), JsStr("null"), JsStr("1"),
   JsStr("<html>Bad Gateway</html>"), JsStr("{\"id\": 1"),
   JsArr(<<>>), JsArr(<<JsNum(1), JsStr("a")>>), JsObj(<<>>),
   JsArr(<<JsObj(<<Member("norad_cat_id", JsNum(25544)),
                   Member("tags", JsArr(<<JsStr("x"), JsNull>>))>>)>>)}

WideResponses ==
  {Reply(st, ct @@ ln, d) :
     st \in {200, 204, 304, 399, 400, 401, 403, 404, 500, 503},
     ct \in Opt("content-type",
                {<<>>, <<"application/json">>,
                 <<"application/json", "; charset=utf-8">>,
                 <<"application/vnd.api+json">>, <<"text/html">>}),
     ln \in Opt("link", {<<>>, NextLink}),
     d \in Bodies}

Failures ==
  {"code" :> "ECONNABORTED" @@ "message" :> <<"timeout", " of 15000ms exceeded">>
     @@ "request" :> "ClientRequest",
   "code" :> "ECONNRESET" @@ "message" :> <<"socket hang up">>
     @@ "request" :> "ClientRequest",
   "message" :> <<"Cannot read properties of undefined">>,
   "code" :> "ERR_UNKNOWN" @@ "request" :> "ClientRequest",
   Nothing}

WideFailures ==
  {c @@ m @@ r :
     c \in Opt("code", {"ECONNABORTED", "ECONNRESET", "ENOTFOUND"}),
     m \in Opt("message",
               {<<>>, <<"timeout", " of 15000ms exceeded">>,
                <<"socket hang up">>,
                <<"connect ETIMEDOUT 10.0.0.1:443">>,
                <<"getaddrinfo ENOTFOUND network.satnogs.org">>}),
     r \in Opt("request", {"ClientRequest"})}

(***************************************************************************)
(* State machine                                                           *)
(***************************************************************************)
Slots == 1..MaxInFlight

Idle == [pc |-> "idle"]

NoOutcome == [kind |-> "none"]

InitIn(environments) ==
  /\ env \in environments
  /\ loadPc = "start"
  /\ SATNOGS_NETWORK_API_URL = ""
  /\ SATNOGS_DB_API_URL = ""
  /\ ALLOWED_ORIGIN = ""
  /\ BASE_CORS_HEADERS = Nothing
  /\ exportsHandler = "none"
  /\ inflight = [s \in Slots |-> Idle]
  /\ last = [kind |-> "none"]

\* Lines 6-30: the constants are computed from process.env, once.
LoadConfig ==
  /\ loadPc = "start"
  /\ loadPc' = "configured"
  /\ SATNOGS_NETWORK_API_URL' =
       EnvOr(env, "SATNOGS_NETWORK_API_URL", "https://network.satnogs.org/api")
  /\ SATNOGS_DB_API_URL' =
       EnvOr(env, "SATNOGS_DB_API_URL", "https://db.satnogs.org/api")
  /\ ALLOWED_ORIGIN' = AllowedOriginOf(env)
  /\ BASE_CORS_HEADERS' = BaseCorsHeadersOf(AllowedOriginOf(env))
  /\ UNCHANGED <<env, exportsHandler, inflight, last>>

\* Line 32: exports.handler = async (event, context) => { proxy }
AssignProxyHandler ==
  /\ loadPc = "configured"
  /\ loadPc' = "first"
  /\ exportsHandler' = "proxy"
  /\ UNCHANGED <<env, SATNOGS_NETWORK_API_URL, SATNOGS_DB_API_URL,
                 ALLOWED_ORIGIN, BASE_CORS_HEADERS, inflight, last>>

\* Line 194: exports.handler = async (event, context) => { test reply }
AssignTestHandler ==
  /\ loadPc = "first"
  /\ loadPc' = "loaded"
  /\ exportsHandler' = "test"
  /\ UNCHANGED <<env, SATNOGS_NETWORK_API_URL, SATNOGS_DB_API_URL,
                 ALLOWED_ORIGIN, BASE_CORS_HEADERS, inflight, last>>

Completed(kind, via, fn, event, calls, outcome, response) ==
  [kind |-> kind, via |-> via, fn |-> fn, event |-> event, calls |-> calls,
   outcome |-> outcome, response |-> response]

NoResponse == [statusCode |-> 0, headers |-> Nothing, body |-> JsNull]

\* The proxy handler runs to its first return or to await axios.get.
RunProxyHandler(s, via, event) ==
  LET start == ProxyHandlerStart(event)
  IN IF start.returned
       THEN /\ last' = Completed("returned", via, "proxy", event, <<>>,
                                 NoOutcome, start.response)
            /\ UNCHANGED inflight
       ELSE /\ inflight' = [inflight EXCEPT ![s] =
                 [pc |-> "await", via |-> via, event |-> event,
                  calls |-> <<start.call>>]]
            /\ UNCHANGED last

RunTestHandler(via, event, now) ==
  /\ last' = Completed("returned", via, "test", event, <<>>, NoOutcome,
                       TestHandlerResponse(event, now))
  /\ UNCHANGED inflight

\* The platform delivers a request to the module's exported handler.
PlatformInvoke(slots, events) ==
  \E s \in slots, event \in events, now \in Clock :
    /\ loadPc = "loaded"
    /\ inflight[s] = Idle
    /\ IF exportsHandler = "proxy"
         THEN RunProxyHandler(s, "exports", event)
         ELSE RunTestHandler("exports", event, now)
    /\ UNCHANGED moduleVars

\* The function of lines 32-190 is called as such.
CallProxyHandler(slots, events) ==
  \E s \in slots, event \in events :
    /\ loadPc = "loaded"
    /\ inflight[s] = Idle
    /\ RunProxyHandler(s, "direct", event)
    /\ UNCHANGED moduleVars

\* axios.get resolves: validateStatus accepts every status.
UpstreamResponds(slots, responses) ==
  \E s \in slots, response \in responses :
    /\ inflight[s].pc = "await"
    /\ last' = Completed("returned", inflight[s].via, "proxy",
                         inflight[s].event, inflight[s].calls,
                         [kind |-> "response", response |-> response],
                         TranslateResponse(inflight[s].event, response))
    /\ inflight' = [inflight EXCEPT ![s] = Idle]
    /\ UNCHANGED moduleVars

\* axios.get rejects: the catch block runs.
UpstreamFails(slots, failures) ==
  \E s \in slots, error \in failures :
    /\ inflight[s].pc = "await"
    /\ last' = IF CatchThrows(error)
                 THEN Completed("threw", inflight[s].via, "proxy",
                                inflight[s].event, inflight[s].calls,
                                [kind |-> "error", error |-> error],
                                NoResponse)
                 ELSE Completed("returned", inflight[s].via, "proxy",
                                inflight[s].event, inflight[s].calls,
                                [kind |-> "error", error |-> error],
                                CatchResponse(inflight[s].event, error))
    /\ inflight' = [inflight EXCEPT ![s] = Idle]
    /\ UNCHANGED moduleVars

\* Concurrent invocations.
Init == InitIn(Environments)

Next ==
  \/ LoadConfig
  \/ AssignProxyHandler
  \/ AssignTestHandler
  \/ PlatformInvoke(Slots, Events)
  \/ CallProxyHandler(Slots, Events)
  \/ UpstreamResponds(Slots, Responses)
  \/ UpstreamFails(Slots, Failures)

Spec == Init /\ [][Next]_vars

\* A single invocation: the handler as a function of its inputs.
SoloPlatformInvoke(events) ==
  last.kind = "none" /\ PlatformInvoke({1}, events)

SoloCallProxyHandler(events) ==
  last.kind = "none" /\ CallProxyHandler({1}, events)

\* One invocation; the proxy handler on every method, path and query.
InitRouting == InitIn(FewEnvironments)

NextRouting ==
  \/ LoadConfig
  \/ AssignProxyHandler
  \/ AssignTestHandler
  \/ SoloPlatformInvoke(Events)
  \/ SoloCallProxyHandler(WideEvents)
  \/ UpstreamResponds({1}, Responses)
  \/ UpstreamFails({1}, Failures)

SpecRouting == InitRouting /\ [][NextRouting]_vars

\* One invocation, every upstream outcome.
InitUpstream == InitIn(FewEnvironments)

NextUpstream ==
  \/ LoadConfig
  \/ AssignProxyHandler
  \/ AssignTestHandler
  \/ SoloPlatformInvoke(Events)
  \/ SoloCallProxyHandler(Events)
  \/ UpstreamResponds({1}, WideResponses)
  \/ UpstreamFails({1}, WideFailures)

SpecUpstream == InitUpstream /\ [][NextUpstream]_vars

(***************************************************************************)
(* Instruments of the checks                                               *)
(***************************************************************************)
\* JSON.parse of a JSON text given as its tokens.
ParseFail == [ok |-> FALSE]

Parsed(val, next) == [ok |-> TRUE, val |-> val, next |-> next]

Numerals == {0, 1, 25544, 200, 204, 304, 399, 400, 401, 403, 404, 500, 503}

RECURSIVE ParseValue(_, _), ParseItems(_, _, _), ParseMembers(_, _, _)
ParseValue(toks, i) ==
  IF i > Len(toks) THEN ParseFail
  ELSE LET tk == toks[i]
       IN CASE tk.k = "lit" /\ tk.v = "null" -> Parsed(JsNull, i + 1)
            [] tk.k = "lit" /\ tk.v = "true" -> Parsed(JsBool(TRUE), i + 1)
            [] tk.k = "lit" /\ tk.v = "false" -> Parsed(JsBool(FALSE), i + 1)
            [] tk.k = "num" /\ (\E n \in Numerals : ToString(n) = tk.v) ->
                 Parsed(JsNum(CHOOSE n \in Numerals : ToString(n) = tk.v), i + 1)
            [] tk.k = "str" -> Parsed(JsStr(tk.v), i + 1)
            [] tk = Tok("punct", "[") ->
                 IF i + 1 <= Len(toks) /\ toks[i + 1] = Tok("punct", "]")
                   THEN Parsed(JsArr(<<>>), i + 2)
                   ELSE ParseItems(toks, i + 1, <<>>)
            [] tk = Tok("punct", "{") ->
                 IF i + 1 <= Len(toks) /\ toks[i + 1] = Tok("punct", "}")
                   THEN Parsed(JsObj(<<>>), i + 2)
                   ELSE ParseMembers(toks, i + 1, <<>>)
            [] OTHER -> ParseFail

ParseItems(toks, i, acc) ==
  LET r == ParseValue(toks, i)
  IN IF ~r.ok \/ r.next > Len(toks) THEN ParseFail
     ELSE IF toks[r.next] = Tok("punct", ",")
       THEN ParseItems(toks, r.next + 1, Append(acc, r.val))
     ELSE IF toks[r.next] = Tok("punct", "]")
       THEN Parsed(JsArr(Append(acc, r.val)), r.next + 1)
     ELSE ParseFail

ParseMembers(toks, i, acc) ==
  IF i + 2 > Len(toks) \/ toks[i].k # "str" \/ toks[i + 1] # Tok("punct", ":")
    THEN ParseFail
  ELSE LET r == ParseValue(toks, i + 2)
       IN IF ~r.ok \/ r.next > Len(toks) THEN ParseFail
          ELSE IF toks[r.next] = Tok("punct", ",")
            THEN ParseMembers(toks, r.next + 1,
                              Append(acc, Member(toks[i].v, r.val)))
          ELSE IF toks[r.next] = Tok("punct", "}")
            THEN Parsed(JsObj(Append(acc, Member(toks[i].v, r.val))),
                        r.next + 1)
          ELSE ParseFail

\* body is a JSON text and parses to value.
ParsesTo(body, value) ==
  /\ body.t = "text"
  /\ LET r == ParseValue(body.v, 1)
     IN r.ok /\ r.next = Len(body.v) + 1 /\ r.val = value

\* The path's segments: its pieces without the empty ones.
RECURSIVE Segments(_)
Segments(pieces) ==
  IF pieces = <<>> THEN <<>>
  ELSE IF Head(pieces) = "" THEN Segments(Tail(pieces))
  ELSE <<Head(pieces)>> \o Segments(Tail(pieces))

\* '/' + s3 + '/' + ... + sn
RECURSIVE SlashEach(_)
SlashEach(segs) ==
  IF segs = <<>> THEN "" ELSE "/" \o Head(segs) \o SlashEach(Tail(segs))

ValidRoute(event) ==
  LET segs == Segments(event.path)
  IN Len(segs) >= 3 /\ segs[1] = "api" /\ segs[2] \in {"network", "db"}

\* An invocation of the proxy handler has completed / has returned a response.
ProxyDone == last.kind # "none" /\ last.fn = "proxy"

ProxyReturned == last.kind = "returned" /\ last.fn = "proxy"

HeaderIs(headers, name, value) == Has(headers, name) /\ headers[name] = value

\* What the deployment configures for Access-Control-Allow-Origin.
ConfiguredOrigin ==
  IF Has(env, "CONTEXT") /\ env["CONTEXT"] = "development" THEN "*"
  ELSE IF Has(env, "ALLOWED_ORIGIN_URL") /\ env["ALLOWED_ORIGIN_URL"] # ""
    THEN env["ALLOWED_ORIGIN_URL"]
  ELSE "*"

CorsNames ==
  {"Access-Control-Allow-Origin", "Access-Control-Allow-Headers",
   "Access-Control-Allow-Methods"}

HasCors(headers) ==
  /\ HeaderIs(headers, "Access-Control-Allow-Origin", ConfiguredOrigin)
  /\ HeaderIs(headers, "Access-Control-Allow-Headers", "Content-Type, Accept")
  /\ HeaderIs(headers, "Access-Control-Allow-Methods", "GET, OPTIONS")

MessageOnly(text) == JsObj(<<Member("message", JsStr(text))>>)

(***************************************************************************)
(* Claims                                                                  *)
(***************************************************************************)
\* C1: whatever requests came before, every response the proxy handler
\* returns (preflight, 405, both 404s, upstream error, success, 504/502/500)
\* carries Access-Control-Allow-Origin, and its value is the one fixed at
\* load time: '*' in development mode, otherwise the configured allowed
\* origin, or '*' when none is configured.
C1_AllowOriginOnEveryResponse ==
  /\ loadPc # "start" => ALLOWED_ORIGIN = ConfiguredOrigin
  /\ ProxyReturned =>
       HeaderIs(last.response.headers, "Access-Control-Allow-Origin",
                ConfiguredOrigin)

C1_Witness ==
  /\ ProxyReturned
  /\ last.response.statusCode = 502
  /\ \E s \in Slots : inflight[s].pc = "await"
  /\ HeaderIs(last.response.headers, "Access-Control-Allow-Origin",
              "https://app.example.com")

\* C2: for a GET, routing depends only on the path's non-empty segments:
\* fewer than 3 segments or a first segment other than 'api' gives 404
\* 'Invalid API path structure'; otherwise a second segment other than
\* 'network' and 'db' gives 404 naming that type; neither issues an upstream
\* request, and only valid routes reach the upstream call.
C2_Routing ==
  /\ \A s \in Slots : inflight[s].pc = "await" => ValidRoute(inflight[s].event)
  /\ (ProxyDone /\ last.event.httpMethod = "GET") =>
       LET segs == Segments(last.event.path)
       IN IF Len(segs) < 3 \/ segs[1] # "api"
            THEN /\ last.kind = "returned"
                 /\ last.calls = <<>>
                 /\ last.response.statusCode = 404
                 /\ ParsesTo(last.response.body, MessageOnly(
                      "Not Found: Invalid API path structure. Expected /api/network/... or /api/db/..."))
          ELSE IF segs[2] \notin {"network", "db"}
            THEN /\ last.kind = "returned"
                 /\ last.calls = <<>>
                 /\ last.response.statusCode = 404
                 /\ ParsesTo(last.response.body, MessageOnly(
                      "Not Found: API type '" \o segs[2]
                        \o "' is not supported. Use 'network' or 'db'."))
          ELSE Len(last.calls) = 1

C2_Witness ==
  /\ ProxyReturned
  /\ last.event.httpMethod = "GET"
  /\ last.event.path = <<"", "api", "network">>
  /\ last.response.statusCode = 404
  /\ last.calls = <<>>

\* C3: a GET on a valid route /api/{network|db}/s3/.../sn issues exactly one
\* upstream GET, never retried, to the base URL configured for the type
\* followed by '/' + s3 + ... + '/' + sn, with exactly the inbound query
\* parameters.
ExpectedCall(event, call) ==
  LET segs == Segments(event.path)
  IN /\ call.method = "GET"
     /\ call.url = (IF segs[2] = "network" THEN SATNOGS_NETWORK_API_URL
                    ELSE SATNOGS_DB_API_URL)
                     \o SlashEach(SubSeq(segs, 3, Len(segs)))
     /\ call.params = event.queryStringParameters

C3_OneUpstreamGet ==
  /\ loadPc # "start" =>
       /\ SATNOGS_NETWORK_API_URL =
            (IF Has(env, "SATNOGS_NETWORK_API_URL")
                  /\ env["SATNOGS_NETWORK_API_URL"] # ""
               THEN env["SATNOGS_NETWORK_API_URL"]
               ELSE "https://network.satnogs.org/api")
       /\ SATNOGS_DB_API_URL =
            (IF Has(env, "SATNOGS_DB_API_URL")
                  /\ env["SATNOGS_DB_API_URL"] # ""
               THEN env["SATNOGS_DB_API_URL"]
               ELSE "https://db.satnogs.org/api")
  /\ \A s \in Slots : inflight[s].pc = "await" =>
       /\ Len(inflight[s].calls) = 1
       /\ ExpectedCall(inflight[s].event, inflight[s].calls[1])
  /\ (ProxyDone /\ last.event.httpMethod = "GET" /\ ValidRoute(last.event)) =>
       /\ Len(last.calls) = 1
       /\ ExpectedCall(last.event, last.calls[1])

C3_Witness ==
  /\ ProxyReturned
  /\ last.outcome.kind = "error"
  /\ last.event.path = <<"api", "db", "observations", "network">>
  /\ last.event.queryStringParameters = QueryA
  /\ Len(last.calls) = 1
  /\ last.calls[1].url = "http://localhost:9002/api/observations/network"
  /\ last.calls[1].params = QueryA

\* C4: the method gate decides before routing, whatever the path and query:
\* OPTIONS gets 204, an empty body and exactly the three base CORS headers;
\* a method other than GET and OPTIONS gets 405, the JSON body
\* {"message": "Method <METHOD> Not Allowed"} and CORS plus Content-Type
\* application/json; neither issues an upstream request.
C4_MethodGate ==
  /\ \A s \in Slots :
       inflight[s].pc = "await" => inflight[s].event.httpMethod = "GET"
  /\ (ProxyDone /\ last.event.httpMethod = "OPTIONS") =>
       /\ last.kind = "returned"
       /\ last.calls = <<>>
       /\ last.response.statusCode = 204
       /\ last.response.body = JsStr("")
       /\ DOMAIN last.response.headers = CorsNames
       /\ HasCors(last.response.headers)
  /\ (ProxyDone /\ last.event.httpMethod \notin {"GET", "OPTIONS"}) =>
       /\ last.kind = "returned"
       /\ last.calls = <<>>
       /\ last.response.statusCode = 405
       /\ ParsesTo(last.response.body, MessageOnly(
            "Method " \o last.event.httpMethod \o " Not Allowed"))
       /\ DOMAIN last.response.headers = CorsNames \cup {"Content-Type"}
       /\ HasCors(last.response.headers)
       /\ last.response.headers["Content-Type"] = "application/json"

C4_Witness ==
  /\ ProxyReturned
  /\ last.event.httpMethod = "OPTIONS"
  /\ last.event.path = <<"observations", "", "db">>
  /\ last.event.queryStringParameters = QueryA
  /\ last.response.statusCode = 204
  /\ DOMAIN last.response.headers = CorsNames

\* The upstream response of the completed invocation, and its headers as the
\* claims read them: present means sent with a non-empty value.
Upstream == last.outcome.response

UpstreamAnswered == ProxyDone /\ last.outcome.kind = "response"

Sent(name) ==
  Has(Upstream.headers, name) /\ Flatten(Upstream.headers[name]) # ""

\* C5: an upstream response with status below 400 is passed through: same
\* status; Content-Type the upstream one if present, application/octet-stream
\* otherwise; the body unchanged when the upstream content type does not
\* contain application/json, and otherwise a JSON text that parses back to
\* the upstream response's body value, whatever that body is (also a text
\* the HTTP client could not parse, and an empty one).
C5_SuccessPassthrough ==
  (UpstreamAnswered /\ Upstream.status < 400) =>
     /\ last.kind = "returned"
     /\ last.response.statusCode = Upstream.status
     /\ HeaderIs(last.response.headers, "Content-Type",
                 IF Sent("content-type")
                   THEN Flatten(Upstream.headers["content-type"])
                   ELSE "application/octet-stream")
     /\ IF Sent("content-type")
           /\ Includes(Upstream.headers["content-type"], "application/json")
          THEN ParsesTo(last.response.body, Upstream.data)
          ELSE last.response.body = Upstream.data

C5_Witness ==
  /\ UpstreamAnswered
  /\ Upstream.status = 200
  /\ Sent("content-type")
  /\ Upstream.headers["content-type"] = <<"application/json", "; charset=utf-8">>
  /\ Upstream.data = JsStr("{\"id\": 1")
  /\ HeaderIs(last.response.headers, "Content-Type",
              "application/json; charset=utf-8")
  /\ last.response.body = JsText(<<Tok("str", "{\"id\": 1")>>)

\* C6 as claimed: an upstream status s >= 400 is passed through with
\* Content-Type application/json and the body {"message": m,
\* "upstreamStatus": s}, m being the 'Not Found' phrase for 404, the
\* 'Unauthorized: access denied' phrase for 401 and 403, and a generic
\* message naming s for every other status.
GenericMessage(status) ==
  "Error fetching data from SatNOGS. Status: " \o ToString(status) \o "."

NotFoundPhrase(type) ==
  "Not Found: The requested resource was not found on the SatNOGS "
    \o type \o " API."

UnauthorizedPhrase(type) ==
  "Unauthorized: Access denied by the SatNOGS " \o type \o " API."

ErrorPassthrough(message) ==
  /\ last.kind = "returned"
  /\ last.response.statusCode = Upstream.status
  /\ HeaderIs(last.response.headers, "Content-Type", "application/json")
  /\ ParsesTo(last.response.body,
              JsObj(<<Member("message", JsStr(message)),
                      Member("upstreamStatus", JsNum(Upstream.status))>>))

C6_AsClaimed ==
  (UpstreamAnswered /\ Upstream.status >= 400) =>
     ErrorPassthrough(
       IF Upstream.status = 404
         THEN NotFoundPhrase(Segments(last.event.path)[2])
       ELSE IF Upstream.status \in {401, 403}
         THEN UnauthorizedPhrase(Segments(last.event.path)[2])
       ELSE GenericMessage(Upstream.status))

\* C6 as amended: the same, except that only 404 has a phrase of its own;
\* 401 and 403 get the generic message naming the status, like every other
\* status.
C6_UpstreamErrorPassthrough ==
  (UpstreamAnswered /\ Upstream.status >= 400) =>
     ErrorPassthrough(
       IF Upstream.status = 404
         THEN NotFoundPhrase(Segments(last.event.path)[2])
       ELSE GenericMessage(Upstream.status))

C6_Witness ==
  /\ UpstreamAnswered
  /\ Upstream.status = 401
  /\ Upstream.data = JsStr("<html>Bad Gateway</html>")
  /\ last.response.statusCode = 401
  /\ ParsesTo(last.response.body,
              JsObj(<<Member("message", JsStr(
                        "Error fetching data from SatNOGS. Status: 401.")),
                      Member("upstreamStatus", JsNum(401))>>))

\* C7 as claimed: among the responses that follow an upstream call, in any
\* interleaving of requests, a Link header of a successful upstream response
\* is copied unchanged and 'Link' appended to the default exposed list;
\* every other response has no Link header and exactly the default list.
Exposes(link) ==
  IF link
    THEN /\ HeaderIs(last.response.headers, "Link",
                     Flatten(Upstream.headers["link"]))
         /\ HeaderIs(last.response.headers, "Access-Control-Expose-Headers",
                     "Content-Type, Content-Length, Link")
    ELSE /\ ~Has(last.response.headers, "Link")
         /\ HeaderIs(last.response.headers, "Access-Control-Expose-Headers",
                     "Content-Type, Content-Length")

C7_AsClaimed ==
  (ProxyReturned /\ last.outcome.kind # "none") =>
     Exposes(/\ last.outcome.kind = "response"
             /\ Upstream.status < 400
             /\ Sent("link"))

\* C7 as amended: the same, with the Link header of an upstream response of
\* any status, error statuses (>= 400) included, copied and exposed.
C7_LinkForwarded ==
  (ProxyReturned /\ last.outcome.kind # "none") =>
     Exposes(last.outcome.kind = "response" /\ Sent("link"))

C7_Witness ==
  /\ ProxyReturned
  /\ last.outcome.kind = "response"
  /\ Upstream.status = 404
  /\ Sent("link")
  /\ HeaderIs(last.response.headers, "Link", Flatten(NextLink))
  /\ HeaderIs(last.response.headers, "Access-Control-Expose-Headers",
              "Content-Type, Content-Length, Link")
  /\ \E s \in Slots : inflight[s].pc = "await"

\* C8: after a transport failure the status follows from the failure's
\* subtype alone: 504 when it is timeout-classified (timeout code, or a
\* timeout message), also when a request was sent; 502 when it is not and a
\* request was sent; 500 for every other failure; the body is the JSON
\* object whose only field is the message for that status, with the inbound
\* path and no error text, under the CORS headers and Content-Type
\* application/json.
C8_TransportFailure ==
  (ProxyDone /\ last.outcome.kind = "error") =>
     LET error == last.outcome.error
         timedOut == \/ Has(error, "code") /\ error["code"] = "ECONNABORTED"
                     \/ Has(error, "message")
                          /\ Includes(error["message"], "timeout")
         path == PathText(last.event.path)
         status == IF timedOut THEN 504
                   ELSE IF Has(error, "request") THEN 502 ELSE 500
         message ==
           IF timedOut
             THEN "Gateway Timeout: No timely response from SatNOGS API for "
                    \o path \o "."
           ELSE IF Has(error, "request")
             THEN "Bad Gateway: Error communicating with SatNOGS API for "
                    \o path \o "."
           ELSE "Internal Server Error processing the request for "
                    \o path \o "."
     IN /\ last.kind = "returned"
        /\ last.response.statusCode = status
        /\ ParsesTo(last.response.body, MessageOnly(message))
        /\ HasCors(last.response.headers)
        /\ HeaderIs(last.response.headers, "Content-Type", "application/json")

\* C9: every invocation of the proxy handler ends by returning a response
\* (a status code, a header map, a body); none ends with an exception
\* leaving the handler, whatever the request, the upstream response or the
\* failure, a failure value without message text included.
C9_AlwaysReturns ==
  ProxyDone =>
     /\ last.kind = "returned"
     /\ last.response.statusCode \in 100..599
     /\ Has(last.response.headers, "Access-Control-Allow-Origin")

\* C10: once the module has loaded, its exported handler is the proxy
\* handler, so every request the platform delivers goes through the method
\* gate, routing, upstream dispatch and translation (a POST is answered 405,
\* an OPTIONS 204, GET /api/unknown/foo 404); no later assignment to
\* exports.handler replaces it.
C10_ExportedHandlerIsProxy ==
  /\ loadPc = "loaded" => exportsHandler = "proxy"
  /\ (last.kind # "none" /\ last.via = "exports") =>
       /\ last.fn = "proxy"
       /\ last.event.httpMethod = "POST" => last.response.statusCode = 405
       /\ last.event.httpMethod = "OPTIONS" => last.response.statusCode = 204

====
